---- MODULE Spec2Model ----
(***************************************************************************)
(* IntensitySegments: a piecewise-constant intensity function kept as a    *)
(* list of [point, intensity] breakpoints, with the operations add and set *)
(* over a half-open interval and the rendering toString. The class exists  *)
(* in a list-based version (variable segments) and in a map-based version  *)
(* (variables segmentMap, sortedKeys, needsRebuild).                       *)
(*                                                                         *)
(* JavaScript values are modelled as records [k, v]:                       *)
(*   k = "num"  a finite number, v its (integer) value                     *)
(*   k = "nan"  NaN                                                        *)
(*   k = "inf"  +Infinity (v = 1) or -Infinity (v = -1)                    *)
(*   k = "str"  a value whose typeof is not 'number' (e.g. the string '10')*)
(*   k = "null" JSON null (only in rendered output)                        *)
(***************************************************************************)
EXTENDS Integers, Sequences, FiniteSets, TLC

\* ---------------------------------------------------------------- bounds
\* Finite points are 1..MaxPoint.
MaxPoint == 4
\* Finite amounts are -MaxAmount..MaxAmount.
MaxAmount == 1
\* A call is taken only if it leaves every finite intensity in
\* -MaxIntensity..MaxIntensity.
MaxIntensity == 1
\* Finite points of the specification over all JavaScript numbers.
MaxJsPoint == 2
\* Number of calls in the specification over all JavaScript numbers.
MaxCalls == 2

VARIABLES
    segments,   \* IntensitySegments.segments: the breakpoint list
    prev,       \* history: the breakpoint list on entry to the observed call
    call,       \* history: the observed call (method, arguments, error thrown)
    ncalls,     \* number of calls made (counted where the runs are bounded)
    segmentMap,   \* map-based IntensitySegments.segmentMap: point -> intensity
    sortedKeys,   \* map-based IntensitySegments.sortedKeys
    needsRebuild, \* map-based IntensitySegments.needsRebuild
    out,        \* history: the strings toString has returned, in order
    callers     \* the calls in progress when calls run step by step

\* the fields of the map-based class
mapStore == <<segmentMap, sortedKeys, needsRebuild>>

vars == <<segments, prev, call, ncalls, segmentMap, sortedKeys, needsRebuild,
          out, callers>>

\* ------------------------------------------------------ JavaScript values
Num(n) == [k |-> "num", v |-> n]
NaN == [k |-> "nan", v |-> 0]
PosInf == [k |-> "inf", v |-> 1]
NegInf == [k |-> "inf", v |-> -1]
Str == [k |-> "str", v |-> 0]
Null == [k |-> "null", v |-> 0]

IsNaN(x) == x.k = "nan"

\* typeof x === 'number'
TypeofNumber(x) == x.k \in {"num", "nan", "inf"}

\* a < b on numbers: false when either is NaN
Lt(a, b) ==
    /\ ~IsNaN(a)
    /\ ~IsNaN(b)
    /\ IF a.k = "inf" THEN a.v < 0 /\ ~(b.k = "inf" /\ b.v < 0)
       ELSE IF b.k = "inf" THEN b.v > 0
       ELSE a.v < b.v

\* a === b: false when either is NaN
StrictEq(a, b) == ~IsNaN(a) /\ ~IsNaN(b) /\ a = b

\* a <= b, a > b, a >= b on numbers
Le(a, b) == Lt(a, b) \/ StrictEq(a, b)
Gt(a, b) == Lt(b, a)
Ge(a, b) == Le(b, a)

\* a + b on numbers
Plus(a, b) ==
    IF IsNaN(a) \/ IsNaN(b) THEN NaN
    ELSE IF a.k = "inf" THEN (IF b.k = "inf" /\ b.v # a.v THEN NaN ELSE a)
    ELSE IF b.k = "inf" THEN b
    ELSE Num(a.v + b.v)

\* ------------------------------------------------------------- validation
OK == "ok"
InvalidType == "Invalid input type"
InvalidRange == "Invalid input range"
InvalidAmount == "Invalid input amount"

\* the earlier revision of the range check: from > to
validateInput_gt(from, to, amount) ==
    IF ~TypeofNumber(from) \/ ~TypeofNumber(to) \/ ~TypeofNumber(amount)
    THEN InvalidType
    ELSE IF Gt(from, to) THEN InvalidRange
    ELSE IF StrictEq(amount, PosInf) \/ StrictEq(amount, NegInf) THEN InvalidAmount
    ELSE OK

\* validateInput without the check of the amount
validateInput_noAmount(from, to, amount) ==
    IF ~TypeofNumber(from) \/ ~TypeofNumber(to) \/ ~TypeofNumber(amount)
    THEN InvalidType
    ELSE IF Ge(from, to) THEN InvalidRange
    ELSE OK

\* validateInput with && in place of || in the type check
validateInput_typeAll(from, to, amount) ==
    IF ~TypeofNumber(from) /\ ~TypeofNumber(to) /\ ~TypeofNumber(amount)
    THEN InvalidType
    ELSE IF Ge(from, to) THEN InvalidRange
    ELSE IF StrictEq(amount, PosInf) \/ StrictEq(amount, NegInf) THEN InvalidAmount
    ELSE OK

\* validateInput with the check of the amount ahead of the check of the range
validateInput_amountFirst(from, to, amount) ==
    IF ~TypeofNumber(from) \/ ~TypeofNumber(to) \/ ~TypeofNumber(amount)
    THEN InvalidType
    ELSE IF StrictEq(amount, PosInf) \/ StrictEq(amount, NegInf) THEN InvalidAmount
    ELSE IF Ge(from, to) THEN InvalidRange
    ELSE OK

\* validateInput: the error it throws, or OK when it returns
validateInput(from, to, amount) ==
    IF ~TypeofNumber(from) \/ ~TypeofNumber(to) \/ ~TypeofNumber(amount)
    THEN InvalidType
    ELSE IF Ge(from, to) THEN InvalidRange
    ELSE IF StrictEq(amount, PosInf) \/ StrictEq(amount, NegInf) THEN InvalidAmount
    ELSE OK

\* ------------------------------------------------------------ segment list
getPoint(segment) == segment[1]
getIntensity(segment) == segment[2]
createSegment(point, intensity) == <<point, intensity>>

\* findIntensityAt with < in place of <=: a segment at the point is missed
findIntensityAt_lt(segs, point) ==
    LET hits == {j \in 1..Len(segs) : Lt(getPoint(segs[j]), point)}
    IN  IF hits = {} THEN Num(0)
        ELSE getIntensity(segs[CHOOSE j \in hits : \A i \in hits : i <= j])

\* findIntensityAt: intensity of the last segment (scanning from the end)
\* whose point is <= point, 0 if there is none
findIntensityAt(segs, point) ==
    LET hits == {j \in 1..Len(segs) : Le(getPoint(segs[j]), point)}
    IN  IF hits = {} THEN Num(0)
        ELSE getIntensity(segs[CHOOSE j \in hits : \A i \in hits : i <= j])

\* The arrow functions passed as condition, as the value each closes over:
\* (point) => point < bound, and () => true.
pointBelow(bound) == [below |-> TRUE, bound |-> bound]
always == [below |-> FALSE, bound |-> Num(0)]

\* condition(point)
holds(condition, point) == ~condition.below \/ Lt(point, condition.bound)

\* index at which the while loop of collectSegmentsWhile / skipSegmentsWhile
\* stops: the first index >= startIndex that is past the end or fails the
\* condition, startIndex itself when it is past the end already (indices are
\* 1-based here)
skipSegmentsWhile(segs, startIndex, condition) ==
    IF startIndex > Len(segs) THEN startIndex
    ELSE CHOOSE i \in startIndex..(Len(segs) + 1) :
            /\ \A j \in startIndex..(i - 1) : holds(condition, getPoint(segs[j]))
            /\ (i = Len(segs) + 1 \/ ~holds(condition, getPoint(segs[i])))

collectSegmentsWhile(segs, startIndex, condition) ==
    LET index == skipSegmentsWhile(segs, startIndex, condition)
    IN  [segments |-> SubSeq(segs, startIndex, index - 1),
         lastIntensity |-> IF index > startIndex
                           THEN getIntensity(segs[index - 1])
                           ELSE Num(0),
         nextIndex |-> index]

\* checkPointAt that does not step over the segment it finds
checkPointAt_noAdvance(segs, index, point) ==
    IF index <= Len(segs) /\ StrictEq(getPoint(segs[index]), point)
    THEN [found |-> TRUE, intensity |-> getIntensity(segs[index]),
          nextIndex |-> index]
    ELSE [found |-> FALSE, intensity |-> Num(0), nextIndex |-> index]

\* checkPointAt: found = FALSE stands for intensity undefined
checkPointAt(segs, index, point) ==
    IF index <= Len(segs) /\ StrictEq(getPoint(segs[index]), point)
    THEN [found |-> TRUE, intensity |-> getIntensity(segs[index]),
          nextIndex |-> index + 1]
    ELSE [found |-> FALSE, intensity |-> Num(0), nextIndex |-> index]

\* ------------------------------------------------------- compressAndTrim
\* one iteration of the Step 1 loop: push the segment unless its intensity
\* === the intensity of the last segment pushed (nothing pushed: null)
compressPush(compressed, segment) ==
    IF Len(compressed) > 0
       /\ StrictEq(getIntensity(segment), getIntensity(compressed[Len(compressed)]))
    THEN compressed
    ELSE Append(compressed, createSegment(getPoint(segment), getIntensity(segment)))

\* Step 1 after the first i segments
RECURSIVE compressedUpTo(_, _)
compressedUpTo(segs, i) ==
    IF i = 0 THEN <<>>
    ELSE compressPush(compressedUpTo(segs, i - 1), segs[i])

\* compressed[i][1] === 0
isZeroAt(compressed, i) == StrictEq(getIntensity(compressed[i]), Num(0))

\* Step 2: index of the first segment whose intensity is not 0
trimStartIndex(compressed) ==
    CHOOSE s \in 1..(Len(compressed) + 1) :
        /\ \A j \in 1..(s - 1) : isZeroAt(compressed, j)
        /\ (s = Len(compressed) + 1 \/ ~isZeroAt(compressed, s))

\* Step 3: walk left from the end over zeros, never past startIndex, then
\* step right once if anything was passed
trimEndIndex(compressed, startIndex) ==
    LET stop == CHOOSE e \in startIndex..Len(compressed) :
                    /\ \A j \in (e + 1)..Len(compressed) : isZeroAt(compressed, j)
                    /\ (e = startIndex \/ ~isZeroAt(compressed, e))
    IN  IF stop < Len(compressed) THEN stop + 1 ELSE stop

\* Step 1 only: the trimming of Steps 2 and 3 left out
compressAndTrim_noTrim(segs) == compressedUpTo(segs, Len(segs))

\* Steps 2 and 3 only: the merge of Step 1 left out
compressAndTrim_noMerge(segs) ==
    IF Len(segs) = 0 THEN <<>>
    ELSE LET startIndex == trimStartIndex(segs)
         IN  IF startIndex > Len(segs) THEN <<>>
             ELSE SubSeq(segs, startIndex, trimEndIndex(segs, startIndex))

\* the final slice taken as slice(startIndex, endIndex): the last kept
\* segment left out
compressAndTrim_sliceShort(segs) ==
    IF Len(segs) = 0 THEN <<>>
    ELSE LET compressed == compressedUpTo(segs, Len(segs))
             startIndex == trimStartIndex(compressed)
         IN  IF startIndex > Len(compressed) THEN <<>>
             ELSE SubSeq(compressed, startIndex,
                         trimEndIndex(compressed, startIndex) - 1)

compressAndTrim(segs) ==
    IF Len(segs) = 0 THEN <<>>
    ELSE LET compressed == compressedUpTo(segs, Len(segs))
             startIndex == trimStartIndex(compressed)
         IN  IF startIndex > Len(compressed) THEN <<>>
             ELSE SubSeq(compressed, startIndex,
                         trimEndIndex(compressed, startIndex))

\* ------------------------------------------------------------ add and set
\* the middle segments: the amount not added to them
bumpSegments_keep(middleSegments, amount) == middleSegments

\* map over the middle segments: the same point, intensity + amount
bumpSegments(middleSegments, amount) ==
    [i \in 1..Len(middleSegments) |->
        createSegment(getPoint(middleSegments[i]),
                      Plus(getIntensity(middleSegments[i]), amount))]

\* the body of add after validateInput has returned
addSegments(segs, from, to, amount) ==
    LET intensityAtToOriginal == findIntensityAt(segs, to)
        before == collectSegmentsWhile(segs, 1, pointBelow(from))
        fromCheck == checkPointAt(segs, before.nextIndex, from)
        intensityAtFrom == IF fromCheck.found THEN fromCheck.intensity
                           ELSE before.lastIntensity
        middle == collectSegmentsWhile(segs, fromCheck.nextIndex, pointBelow(to))
        toCheck == checkPointAt(segs, middle.nextIndex, to)
        afterTo == collectSegmentsWhile(segs, toCheck.nextIndex, always)
        newSegments ==
            before.segments
            \o <<createSegment(from, Plus(intensityAtFrom, amount))>>
            \o bumpSegments(middle.segments, amount)
            \o <<createSegment(to, intensityAtToOriginal)>>
            \o afterTo.segments
    IN  compressAndTrim(newSegments)

\* set that keeps the segments inside (from, to) instead of skipping them
setSegments_keepMiddle(segs, from, to, amount) ==
    LET before == collectSegmentsWhile(segs, 1, pointBelow(from))
        fromCheck == checkPointAt(segs, before.nextIndex, from)
        intensityBeforeFrom == IF fromCheck.found THEN fromCheck.intensity
                               ELSE before.lastIntensity
        middle == collectSegmentsWhile(segs, fromCheck.nextIndex, pointBelow(to))
        toCheck == checkPointAt(segs, middle.nextIndex, to)
        afterTo == collectSegmentsWhile(segs, toCheck.nextIndex, always)
        newSegments ==
            before.segments
            \o <<createSegment(from, amount)>>
            \o middle.segments
            \o <<createSegment(to, intensityBeforeFrom)>>
            \o afterTo.segments
    IN  compressAndTrim(newSegments)

\* the body of set after validateInput has returned
setSegments(segs, from, to, amount) ==
    LET before == collectSegmentsWhile(segs, 1, pointBelow(from))
        fromCheck == checkPointAt(segs, before.nextIndex, from)
        intensityBeforeFrom == IF fromCheck.found THEN fromCheck.intensity
                               ELSE before.lastIntensity
        skipped == skipSegmentsWhile(segs, fromCheck.nextIndex, pointBelow(to))
        toCheck == checkPointAt(segs, skipped, to)
        afterTo == collectSegmentsWhile(segs, toCheck.nextIndex, always)
        newSegments ==
            before.segments
            \o <<createSegment(from, amount)>>
            \o <<createSegment(to, intensityBeforeFrom)>>
            \o afterTo.segments
    IN  compressAndTrim(newSegments)

\* add that validates only after it has rebuilt the list
add_validateLast(segs, from, to, amount) ==
    [err |-> validateInput(from, to, amount),
     segments |-> addSegments(segs, from, to, amount)]

\* add: the error thrown (OK if none) and the list it leaves
add(segs, from, to, amount) ==
    LET err == validateInput(from, to, amount)
    IN  IF err # OK THEN [err |-> err, segments |-> segs]
        ELSE [err |-> OK, segments |-> addSegments(segs, from, to, amount)]

\* set: the error thrown (OK if none) and the list it leaves
set(segs, from, to, amount) ==
    LET err == validateInput(from, to, amount)
    IN  IF err # OK THEN [err |-> err, segments |-> segs]
        ELSE [err |-> OK, segments |-> setSegments(segs, from, to, amount)]

\* JSON.stringify of one number: NaN and the infinities become null
jsonNumber(x) == IF x.k = "num" THEN x ELSE Null

\* toString: JSON.stringify(this.segments), as the list of rendered pairs
toString(segs) ==
    [i \in 1..Len(segs) |-> <<jsonNumber(getPoint(segs[i])),
                              jsonNumber(getIntensity(segs[i]))>>]

\* ------------------------------------------------------------ state machine
\* every finite intensity of the list is within the model's bound
InBounds(segs) ==
    \A i \in 1..Len(segs) :
        getIntensity(segs[i]).k = "num"
            => getIntensity(segs[i]).v \in -MaxIntensity..MaxIntensity

\* value of call while no call is under observation
NoCall == [op |-> "new", from |-> Num(0), to |-> Num(0), amount |-> Num(0),
           err |-> OK]

\* Callers of the store when calls run step by step, and the locals of one
\* caller before it has called anything.
Callers == {1, 2}

Idle ==
    [pc |-> "idle", op |-> "none", from |-> Num(0), to |-> Num(0),
     amount |-> Num(0), err |-> OK, intensityAtToOriginal |-> Num(0),
     intensityBeforeFrom |-> Num(0), newSegments |-> <<>>, curIndex |-> 1]

\* no call in progress; interleaved records whether a step of one call has
\* been taken while another call was in progress
NoCallers == [state |-> [p \in Callers |-> Idle], interleaved |-> FALSE]

\* new IntensitySegments(): segments = []
Init ==
    /\ segments = <<>>
    /\ prev = <<>>
    /\ call = NoCall
    /\ ncalls = 0
    /\ segmentMap = << >>
    /\ sortedKeys = <<>>
    /\ needsRebuild = FALSE
    /\ out = <<>>
    /\ callers = NoCallers

\* the history variables after a call: an observed call records the list on
\* entry, the arguments and the error; any other call records nothing
Observe(observed, op, from, to, amount, err) ==
    IF observed
    THEN /\ prev' = segments
         /\ call' = [op |-> op, from |-> from, to |-> to, amount |-> amount,
                     err |-> err]
    ELSE /\ prev' = <<>>
         /\ call' = NoCall

\* one call of add(from, to, amount), from entry to return or throw
Add(from, to, amount, observed) ==
    LET r == add(segments, from, to, amount)
    IN  /\ InBounds(r.segments)
        /\ segments' = r.segments
        /\ Observe(observed, "add", from, to, amount, r.err)
        /\ UNCHANGED <<mapStore, out, callers>>

\* one call of set(from, to, amount), from entry to return or throw
Set(from, to, amount, observed) ==
    LET r == set(segments, from, to, amount)
    IN  /\ InBounds(r.segments)
        /\ segments' = r.segments
        /\ Observe(observed, "set", from, to, amount, r.err)
        /\ UNCHANGED <<mapStore, out, callers>>

\* Arguments of Spec: finite points and finite amounts, so that every call
\* with from < to is a valid call of the interface and every other call is
\* rejected by validateInput.
Points == {Num(n) : n \in 1..MaxPoint}
Amounts == {Num(n) : n \in -MaxAmount..MaxAmount}

\* Spec follows the store through every sequence of such calls and observes
\* one of them: the run ends with the observed call, whose entry state and
\* arguments the history variables keep.
AddCall ==
    /\ call = NoCall
    /\ UNCHANGED ncalls
    /\ \E from \in Points, to \in Points, amount \in Amounts,
          observed \in BOOLEAN :
            Add(from, to, amount, observed)

SetCall ==
    /\ call = NoCall
    /\ UNCHANGED ncalls
    /\ \E from \in Points, to \in Points, amount \in Amounts,
          observed \in BOOLEAN :
            Set(from, to, amount, observed)

Next == AddCall \/ SetCall

Spec == Init /\ [][Next]_vars

\* Arguments of SpecJs: every kind of JavaScript value, NaN, the infinities
\* and non-numbers included. The number of calls is bounded (with NaN as a
\* point the list can grow with every call); as in Spec, one call is observed
\* and ends the run.
JsPoints == {Num(n) : n \in 1..MaxJsPoint} \cup {NaN, PosInf, NegInf, Str}
JsAmounts == {Num(1), NaN, PosInf, NegInf, Str}

JsAddCall ==
    /\ call = NoCall
    /\ ncalls < MaxCalls
    /\ ncalls' = ncalls + 1
    /\ \E from \in JsPoints, to \in JsPoints, amount \in JsAmounts,
          observed \in BOOLEAN :
            Add(from, to, amount, observed)

JsSetCall ==
    /\ call = NoCall
    /\ ncalls < MaxCalls
    /\ ncalls' = ncalls + 1
    /\ \E from \in JsPoints, to \in JsPoints, amount \in JsAmounts,
          observed \in BOOLEAN :
            Set(from, to, amount, observed)

NextJs == JsAddCall \/ JsSetCall

SpecJs == Init /\ [][NextJs]_vars

\* -a for a finite amount a
Negated(amount) == Num(-amount.v)

\* The second call of add(from, to, a); add(from, to, -a): it follows an
\* observed add that returned, with the same range and the negated amount.
\* prev stays the list on entry to the first call.
AddInverse ==
    /\ call.op = "add"
    /\ call.err = OK
    /\ LET r == add(segments, call.from, call.to, Negated(call.amount))
       IN  /\ segments' = r.segments
           /\ call' = [call EXCEPT !.op = "add;add-", !.err = r.err]
    /\ UNCHANGED <<prev, ncalls, mapStore, out, callers>>

\* The second call of add(a, b, v); add(b, c, v) on a new store: it follows
\* an observed add(a, b, v) that returned on the empty list. call keeps a as
\* from and v as amount, and records c as to.
AddAdjacent ==
    /\ call.op = "add"
    /\ call.err = OK
    /\ prev = <<>>
    /\ \E c \in Points :
        LET r == add(segments, call.to, c, call.amount)
        IN  /\ segments' = r.segments
            /\ call' = [call EXCEPT !.op = "add;addNext", !.to = c,
                                    !.err = r.err]
    /\ UNCHANGED <<prev, ncalls, mapStore, out, callers>>

\* SpecTwice: the runs of Spec, and those in which the observed add is
\* followed by one of the second calls above.
NextTwice == Next \/ AddInverse \/ AddAdjacent

SpecTwice == Init /\ [][NextTwice]_vars

\* The second call of set(from, to, a); set(from, to, b): it follows an
\* observed set that returned, with the same range and any amount b, which
\* call then records as amount. prev stays the list on entry to the first
\* call.
SetAgain ==
    /\ call.op = "set"
    /\ call.err = OK
    /\ \E b \in Amounts :
        LET r == set(segments, call.from, call.to, b)
        IN  /\ segments' = r.segments
            /\ call' = [call EXCEPT !.op = "set;set", !.amount = b,
                                    !.err = r.err]
    /\ UNCHANGED <<prev, ncalls, mapStore, out, callers>>

\* SpecSetTwice: the runs of Spec, and those in which the observed set is
\* followed by a second set over the same range.
NextSetTwice == Next \/ SetAgain

SpecSetTwice == Init /\ [][NextSetTwice]_vars

\* ------------------------------------------- compressAndTrim on any list
\* the elements of a set of integers in ascending order
RECURSIVE ascending(_)
ascending(S) ==
    IF S = {} THEN <<>>
    ELSE LET least == CHOOSE x \in S : \A y \in S : x <= y
         IN  <<least>> \o ascending(S \ {least})

\* the [number, number][] arguments of compressAndTrim: every list with
\* strictly increasing points in 1..MaxPoint and intensities within
\* MaxIntensity, compressed or not
SegmentLists ==
    UNION { { [i \in 1..Cardinality(S) |->
                  createSegment(Num(ascending(S)[i]), Num(f[ascending(S)[i]]))]
              : f \in [S -> (-MaxIntensity)..MaxIntensity] }
            : S \in SUBSET (1..MaxPoint) }

\* prev is the argument x; segments is x, then compressAndTrim(x), then
\* compressAndTrim(compressAndTrim(x)); ncalls counts the applications
InitCompress ==
    /\ segments \in SegmentLists
    /\ prev = segments
    /\ call = NoCall
    /\ ncalls = 0
    /\ segmentMap = << >>
    /\ sortedKeys = <<>>
    /\ needsRebuild = FALSE
    /\ out = <<>>
    /\ callers = NoCallers

Compress ==
    /\ ncalls < 2
    /\ segments' = compressAndTrim(segments)
    /\ ncalls' = ncalls + 1
    /\ UNCHANGED <<prev, call, mapStore, out, callers>>

SpecCompress == InitCompress /\ [][Compress]_vars

\* ------------------------------------------------ the documented example
\* the points and amounts of the README's Basic Example
DocPoints == {Num(10), Num(20), Num(30), Num(40)}
DocAmounts == {Num(1), Num(-2)}

\* length of the runs of SpecDoc
MaxDocCalls == 3

\* one call of add on the example's points, every call recorded: prev is the
\* list on entry, ncalls the number of calls made so far
DocAdd ==
    /\ ncalls < MaxDocCalls
    /\ \E from \in DocPoints, to \in DocPoints, amount \in DocAmounts :
        LET r == add(segments, from, to, amount)
        IN  /\ segments' = r.segments
            /\ prev' = segments
            /\ call' = [op |-> "add", from |-> from, to |-> to,
                        amount |-> amount, err |-> r.err]
    /\ ncalls' = ncalls + 1
    /\ UNCHANGED <<mapStore, out, callers>>

SpecDoc == Init /\ [][DocAdd]_vars

\* ------------------------------------------ map-based IntensitySegments
\* undefined: Map.get of a missing key, findClosestLeftPoint without result
Undefined == [k |-> "undefined", v |-> 0]

\* x || 0 on a number or undefined: 0 for undefined, NaN and 0
OrZero(x) == IF x.k \in {"undefined", "nan"} \/ x = Num(0) THEN Num(0) ELSE x

\* a - b on numbers
Minus(a, b) ==
    Plus(a, IF b.k \in {"num", "inf"} THEN [b EXCEPT !.v = -b.v] ELSE b)

\* Map.has, Map.get, Map.set
mapHas(map, key) == key \in DOMAIN map
mapGet(map, key) == IF key \in DOMAIN map THEN map[key] ELSE Undefined
mapSet(map, key, value) ==
    [k \in DOMAIN map \cup {key} |-> IF k = key THEN value ELSE map[k]]

\* the loop of findClosestLeftPoint over the 0-based indices left..right
RECURSIVE closestLeftSearch(_, _, _, _, _)
closestLeftSearch(sortedArray, key, left, right, result) ==
    IF left > right THEN result
    ELSE LET mid == (left + right) \div 2
         IN  IF Lt(sortedArray[mid + 1], key)
             THEN closestLeftSearch(sortedArray, key, mid + 1, right, mid)
             ELSE closestLeftSearch(sortedArray, key, left, mid - 1, result)

findClosestLeftPoint(sortedArray, key) ==
    LET result == closestLeftSearch(sortedArray, key, 0,
                                    Len(sortedArray) - 1, -1)
    IN  IF result >= 0 THEN sortedArray[result + 1] ELSE Undefined

\* sortedKeys.map(key => [key, map.get(key)])
mapToSortedArray(map, keys) ==
    [i \in 1..Len(keys) |-> createSegment(keys[i], mapGet(map, keys[i]))]

\* Array.from(keys).sort((a, b) => a - b), for finite keys
sortKeys(keys) ==
    LET order == ascending({key.v : key \in keys})
    IN  [i \in 1..Len(order) |-> Num(order[i])]

\* The object is the record this = [segmentMap, sortedKeys, needsRebuild].
\* markDirty leaving the flag as it is
markDirty_skip(this) == this

markDirty(this) == [this EXCEPT !.needsRebuild = TRUE]

rebuildIfNeeded(this) ==
    IF this.needsRebuild
    THEN [this EXCEPT !.sortedKeys = sortKeys(DOMAIN this.segmentMap),
                      !.needsRebuild = FALSE]
    ELSE this

\* segmentMap.set(key, value) on the object
withEntry(this, key, value) ==
    [this EXCEPT !.segmentMap = mapSet(@, key, value)]

handleAddStartPoint(this, from, amount) ==
    IF mapHas(this.segmentMap, from)
    THEN withEntry(this, from,
                   Plus(OrZero(mapGet(this.segmentMap, from)), amount))
    ELSE LET placed == rebuildIfNeeded(markDirty(withEntry(this, from, Num(0))))
             closestLeftPoint == findClosestLeftPoint(placed.sortedKeys, from)
         IN  IF closestLeftPoint # Undefined
             THEN withEntry(placed, from,
                            Plus(OrZero(mapGet(placed.segmentMap,
                                               closestLeftPoint)), amount))
             ELSE withEntry(placed, from, amount)

\* the forEach of updateIntermediatePoints over the first i sorted keys
RECURSIVE updateUpTo(_, _, _, _, _)
updateUpTo(this, i, from, to, amount) ==
    IF i = 0 THEN this
    ELSE LET done == updateUpTo(this, i - 1, from, to, amount)
             key == this.sortedKeys[i]
         IN  IF Gt(key, from) /\ Lt(key, to)
             THEN withEntry(done, key,
                            Plus(OrZero(mapGet(done.segmentMap, key)), amount))
             ELSE done

updateIntermediatePoints(this, from, to, amount) ==
    updateUpTo(this, Len(this.sortedKeys), from, to, amount)

\* the end point written as the bumped intensity, the amount not taken off
handleAddEndPoint_noSubtract(this, to, amount) ==
    IF ~mapHas(this.segmentMap, to)
    THEN LET placed == rebuildIfNeeded(markDirty(withEntry(this, to, Num(0))))
             closestLeftPoint == findClosestLeftPoint(placed.sortedKeys, to)
         IN  IF closestLeftPoint # Undefined
             THEN withEntry(placed, to,
                            OrZero(mapGet(placed.segmentMap, closestLeftPoint)))
             ELSE withEntry(placed, to, Num(0))
    ELSE this

handleAddEndPoint(this, to, amount) ==
    IF ~mapHas(this.segmentMap, to)
    THEN LET placed == rebuildIfNeeded(markDirty(withEntry(this, to, Num(0))))
             closestLeftPoint == findClosestLeftPoint(placed.sortedKeys, to)
         IN  IF closestLeftPoint # Undefined
             THEN LET currentIntensity ==
                          OrZero(mapGet(placed.segmentMap, closestLeftPoint))
                  IN  withEntry(placed, to, Minus(currentIntensity, amount))
             ELSE withEntry(placed, to, Num(0))
    ELSE this

\* add of the map-based class: the error thrown (OK if none) and the object
\* on return
mapAdd(this, from, to, amount) ==
    LET err == validateInput(from, to, amount)
    IN  IF err # OK THEN [err |-> err, this |-> this]
        ELSE [err |-> OK,
              this |-> handleAddEndPoint(
                           updateIntermediatePoints(
                               handleAddStartPoint(this, from, amount),
                               from, to, amount),
                           to, amount)]

\* the array toString passes to JSON.stringify, compressed and trimmed first
mapToString_compress(this) ==
    [out |-> toString(compressAndTrim(
                 mapToSortedArray(this.segmentMap, this.sortedKeys))),
     this |-> this]

\* toString of the map-based class: the string returned and the object on
\* return
mapToString(this) ==
    [out |-> toString(mapToSortedArray(this.segmentMap, this.sortedKeys)),
     this |-> this]

\* the object in the current state
This ==
    [segmentMap |-> segmentMap, sortedKeys |-> sortedKeys,
     needsRebuild |-> needsRebuild]

\* every finite intensity of the map is within the model's bound
MapInBounds(map) ==
    \A key \in DOMAIN map :
        map[key].k = "num" => map[key].v \in -MaxIntensity..MaxIntensity

\* one call of add(from, to, amount) on the map-based class; an observed
\* call records in prev the array toString would have rendered on entry
MapAdd(from, to, amount, observed) ==
    LET r == mapAdd(This, from, to, amount)
    IN  /\ MapInBounds(r.this.segmentMap)
        /\ segmentMap' = r.this.segmentMap
        /\ sortedKeys' = r.this.sortedKeys
        /\ needsRebuild' = r.this.needsRebuild
        /\ IF observed
           THEN /\ prev' = mapToSortedArray(segmentMap, sortedKeys)
                /\ call' = [op |-> "map.add", from |-> from, to |-> to,
                            amount |-> amount, err |-> r.err]
           ELSE /\ prev' = <<>>
                /\ call' = NoCall
        /\ UNCHANGED <<segments, ncalls, out, callers>>

MapAddCall ==
    /\ call = NoCall
    /\ \E from \in Points, to \in Points, amount \in Amounts,
          observed \in BOOLEAN :
            MapAdd(from, to, amount, observed)

\* SpecMap follows the map-based store through every sequence of add calls
\* with finite arguments and observes one of them.
SpecMap == Init /\ [][MapAddCall]_vars

\* ------------------------------------------------- set of the map-based class
\* the placeholder of set for one end point: 0 under a key that is missing
withPlaceholder(this, point) ==
    IF ~mapHas(this.segmentMap, point)
    THEN markDirty(withEntry(this, point, Num(0)))
    ELSE this

\* the forEach of set over the first i sorted keys
RECURSIVE overrideUpTo(_, _, _, _, _)
overrideUpTo(this, i, from, to, amount) ==
    IF i = 0 THEN this
    ELSE LET done == overrideUpTo(this, i - 1, from, to, amount)
             key == this.sortedKeys[i]
         IN  IF Gt(key, from) /\ Lt(key, to)
             THEN withEntry(done, key, amount)
             ELSE done

\* the end of set: the intensity written at to
restoreAtTo(this, from, to) ==
    LET closestLeftBeforeTo == findClosestLeftPoint(this.sortedKeys, to)
    IN  IF closestLeftBeforeTo # Undefined /\ Lt(closestLeftBeforeTo, from)
        THEN withEntry(this, to,
                       OrZero(mapGet(this.segmentMap, closestLeftBeforeTo)))
        ELSE withEntry(this, to, Num(0))

\* set of the map-based class: the error thrown (OK if none) and the object
\* on return
mapSetRange(this, from, to, amount) ==
    LET err == validateInput(from, to, amount)
    IN  IF err # OK THEN [err |-> err, this |-> this]
        ELSE LET placed == rebuildIfNeeded(
                               withPlaceholder(withPlaceholder(this, from), to))
                 started == withEntry(placed, from, amount)
                 inner == overrideUpTo(started, Len(started.sortedKeys),
                                       from, to, amount)
             IN  [err |-> OK, this |-> restoreAtTo(inner, from, to)]

\* one call of set(from, to, amount) on the map-based class, observed as
\* MapAdd is
MapSet(from, to, amount, observed) ==
    LET r == mapSetRange(This, from, to, amount)
    IN  /\ MapInBounds(r.this.segmentMap)
        /\ segmentMap' = r.this.segmentMap
        /\ sortedKeys' = r.this.sortedKeys
        /\ needsRebuild' = r.this.needsRebuild
        /\ IF observed
           THEN /\ prev' = mapToSortedArray(segmentMap, sortedKeys)
                /\ call' = [op |-> "map.set", from |-> from, to |-> to,
                            amount |-> amount, err |-> r.err]
           ELSE /\ prev' = <<>>
                /\ call' = NoCall
        /\ UNCHANGED <<segments, ncalls, out, callers>>

MapSetCall ==
    /\ call = NoCall
    /\ \E from \in Points, to \in Points, amount \in Amounts,
          observed \in BOOLEAN :
            MapSet(from, to, amount, observed)

\* SpecMapSet follows the map-based store through every sequence of add and
\* set calls with finite arguments and observes one of them.
NextMapSet == MapAddCall \/ MapSetCall

SpecMapSet == Init /\ [][NextMapSet]_vars

\* ----------------------------------------------------- toString as a call
\* A run of SpecRender exercises one object, of the list-based or of the
\* map-based class: a call on one class is taken only while the object of
\* the other class is as constructed.
ListUntouched == segments = <<>>
MapUntouched == DOMAIN segmentMap = {} /\ sortedKeys = <<>> /\ ~needsRebuild

\* add and set calls that are not observed
ListCall ==
    /\ call = NoCall
    /\ MapUntouched
    /\ UNCHANGED ncalls
    /\ \E from \in Points, to \in Points, amount \in Amounts :
        \/ Add(from, to, amount, FALSE)
        \/ Set(from, to, amount, FALSE)

MapCall ==
    /\ call = NoCall
    /\ ListUntouched
    /\ \E from \in Points, to \in Points, amount \in Amounts :
        MapAdd(from, to, amount, FALSE)

\* the observed call of toString on the list-based class: the method assigns
\* no field; prev records the list on entry, out the string returned
ListToString ==
    /\ call = NoCall
    /\ MapUntouched
    /\ out' = <<toString(segments)>>
    /\ prev' = segments
    /\ call' = [NoCall EXCEPT !.op = "toString"]
    /\ UNCHANGED <<segments, ncalls, mapStore, callers>>

\* the observed call of toString on the map-based class; prev records the
\* array of the [key, value] pairs of the map on entry, in key order
MapToString ==
    /\ call = NoCall
    /\ ListUntouched
    /\ LET r == mapToString(This)
       IN  /\ out' = <<r.out>>
           /\ segmentMap' = r.this.segmentMap
           /\ sortedKeys' = r.this.sortedKeys
           /\ needsRebuild' = r.this.needsRebuild
    /\ prev' = mapToSortedArray(segmentMap, sortKeys(DOMAIN segmentMap))
    /\ call' = [NoCall EXCEPT !.op = "map.toString"]
    /\ UNCHANGED <<segments, ncalls, callers>>

\* a second toString right after the observed one
ListToStringAgain ==
    /\ call.op = "toString"
    /\ out' = Append(out, toString(segments))
    /\ call' = [call EXCEPT !.op = "toString;toString"]
    /\ UNCHANGED <<segments, prev, ncalls, mapStore, callers>>

MapToStringAgain ==
    /\ call.op = "map.toString"
    /\ LET r == mapToString(This)
       IN  /\ out' = Append(out, r.out)
           /\ segmentMap' = r.this.segmentMap
           /\ sortedKeys' = r.this.sortedKeys
           /\ needsRebuild' = r.this.needsRebuild
    /\ call' = [call EXCEPT !.op = "map.toString;toString"]
    /\ UNCHANGED <<segments, prev, ncalls, callers>>

\* an add or set right after the observed toString
AddAfterToString ==
    /\ call.op = "toString"
    /\ \E from \in Points, to \in Points, amount \in Amounts :
        LET r == add(segments, from, to, amount)
        IN  /\ segments' = r.segments
            /\ call' = [op |-> "toString;add", from |-> from, to |-> to,
                        amount |-> amount, err |-> r.err]
    /\ UNCHANGED <<prev, ncalls, mapStore, out, callers>>

SetAfterToString ==
    /\ call.op = "toString"
    /\ \E from \in Points, to \in Points, amount \in Amounts :
        LET r == set(segments, from, to, amount)
        IN  /\ segments' = r.segments
            /\ call' = [op |-> "toString;set", from |-> from, to |-> to,
                        amount |-> amount, err |-> r.err]
    /\ UNCHANGED <<prev, ncalls, mapStore, out, callers>>

MapAddAfterToString ==
    /\ call.op = "map.toString"
    /\ \E from \in Points, to \in Points, amount \in Amounts :
        LET r == mapAdd(This, from, to, amount)
        IN  /\ segmentMap' = r.this.segmentMap
            /\ sortedKeys' = r.this.sortedKeys
            /\ needsRebuild' = r.this.needsRebuild
            /\ call' = [op |-> "map.toString;add", from |-> from, to |-> to,
                        amount |-> amount, err |-> r.err]
    /\ UNCHANGED <<segments, prev, ncalls, out, callers>>

NextRender ==
    \/ ListCall
    \/ MapCall
    \/ ListToString
    \/ MapToString
    \/ ListToStringAgain
    \/ MapToStringAgain
    \/ AddAfterToString
    \/ SetAfterToString
    \/ MapAddAfterToString

SpecRender == Init /\ [][NextRender]_vars

\* -------------------------------------------------- two adds in both orders
\* the amounts of the two calls: one up, one down
CommuteAmounts == {Num(1), Num(-1)}

\* the valid calls of add over Points and these amounts, as
\* <<from, to, amount>>
ValidAdds ==
    {c \in Points \X Points \X CommuteAmounts :
        validateInput(c[1], c[2], c[3]) = OK}

\* a number per call, by which each pair of calls is taken once
CallKey(c) ==
    (c[1].v * (MaxPoint + 1) + c[2].v) * (2 * MaxAmount + 1) + c[3].v

\* Two calls of add made on the store, and the same two calls made in the
\* other order on a store that holds the same list: segments is the list
\* after the first order, out the string the other store then renders, prev
\* the list on entry. The run ends here.
AddBothOrders ==
    /\ call = NoCall
    /\ MapUntouched
    /\ \E c \in ValidAdds :
        LET afterC == add(segments, c[1], c[2], c[3]).segments
        IN  /\ InBounds(afterC)
            /\ \E d \in ValidAdds :
                LET afterD == add(segments, d[1], d[2], d[3]).segments
                    afterCD == add(afterC, d[1], d[2], d[3]).segments
                    afterDC == add(afterD, c[1], c[2], c[3]).segments
                IN  /\ CallKey(c) <= CallKey(d)
                    /\ InBounds(afterD)
                    /\ InBounds(afterCD)
                    /\ segments' = afterCD
                    /\ out' = <<toString(afterDC)>>
    /\ prev' = segments
    /\ call' = [NoCall EXCEPT !.op = "add,add"]
    /\ UNCHANGED <<ncalls, mapStore, callers>>

\* SpecCommute follows the list-based store through every sequence of add
\* and set calls and ends with two adds taken in both orders.
NextCommute == ListCall \/ AddBothOrders

SpecCommute == Init /\ [][NextCommute]_vars

\* ------------------------------------------------- calls run step by step
\* Two callers make one call each of add or set on the list-based store
\* with no mutual exclusion: every read of this.segments and the final write
\* is a step of its own, and the steps of the two calls interleave freely.
\* The locals of a call (newSegments, curIndex, ...) are private to it.
MidCall(local) == local.pc \notin {"idle", "done"}

\* caller p moves to the locals next; the store is left as it is
StepTo(p, next) ==
    /\ callers' =
          [state |-> [callers.state EXCEPT ![p] = next],
           interleaved |->
               \/ callers.interleaved
               \/ \E q \in Callers \ {p} : MidCall(callers.state[q])]
    /\ UNCHANGED <<prev, call, ncalls, mapStore, out>>

\* entry of add or set: validateInput
Begin(p) ==
    /\ callers.state[p].pc = "idle"
    /\ \E op \in {"add", "set"}, from \in Points, to \in Points,
          amount \in Amounts :
        LET err == validateInput(from, to, amount)
            entered == [Idle EXCEPT !.op = op, !.from = from, !.to = to,
                                    !.amount = amount, !.err = err]
        IN  StepTo(p, [entered EXCEPT !.pc =
                          IF err # OK THEN "done"
                          ELSE IF op = "add" THEN "readTo"
                          ELSE "collectBefore"])
    /\ UNCHANGED segments

\* add: const intensityAtToOriginal = this.findIntensityAt(to)
ReadTo(p) ==
    LET my == callers.state[p]
    IN  /\ my.pc = "readTo"
        /\ StepTo(p, [my EXCEPT
                        !.intensityAtToOriginal = findIntensityAt(segments, my.to),
                        !.pc = "collectBefore"])
        /\ UNCHANGED segments

\* add and set: this.collectSegmentsWhile(0, (point) => point < from)
CollectBefore(p) ==
    LET my == callers.state[p]
        r == collectSegmentsWhile(segments, 1, pointBelow(my.from))
    IN  /\ my.pc = "collectBefore"
        /\ StepTo(p, [my EXCEPT !.newSegments = r.segments,
                                !.intensityBeforeFrom = r.lastIntensity,
                                !.curIndex = r.nextIndex,
                                !.pc = "checkFrom"])
        /\ UNCHANGED segments

\* add and set: this.checkPointAt(curIndex, from) and the push of the segment
\* at from
CheckFrom(p) ==
    LET my == callers.state[p]
        r == checkPointAt(segments, my.curIndex, my.from)
        atFrom == IF r.found THEN r.intensity ELSE my.intensityBeforeFrom
    IN  /\ my.pc = "checkFrom"
        /\ StepTo(p, [my EXCEPT
                        !.intensityBeforeFrom = atFrom,
                        !.curIndex = r.nextIndex,
                        !.newSegments =
                            Append(@, IF my.op = "add"
                                      THEN createSegment(my.from,
                                                         Plus(atFrom, my.amount))
                                      ELSE createSegment(my.from, my.amount)),
                        !.pc = IF my.op = "add" THEN "collectMiddle"
                               ELSE "skipMiddle"])
        /\ UNCHANGED segments

\* add: this.collectSegmentsWhile(curIndex, (point) => point < to) and the
\* push of the segments found, the amount added
CollectMiddle(p) ==
    LET my == callers.state[p]
        r == collectSegmentsWhile(segments, my.curIndex, pointBelow(my.to))
    IN  /\ my.pc = "collectMiddle"
        /\ StepTo(p, [my EXCEPT
                        !.newSegments = @ \o bumpSegments(r.segments, my.amount),
                        !.curIndex = r.nextIndex,
                        !.pc = "checkTo"])
        /\ UNCHANGED segments

\* set: this.skipSegmentsWhile(curIndex, (point) => point < to)
SkipMiddle(p) ==
    LET my == callers.state[p]
    IN  /\ my.pc = "skipMiddle"
        /\ StepTo(p, [my EXCEPT
                        !.curIndex = skipSegmentsWhile(segments, my.curIndex,
                                                       pointBelow(my.to)),
                        !.pc = "checkTo"])
        /\ UNCHANGED segments

\* add and set: this.checkPointAt(curIndex, to) and the push of the segment
\* at to
CheckTo(p) ==
    LET my == callers.state[p]
        r == checkPointAt(segments, my.curIndex, my.to)
    IN  /\ my.pc = "checkTo"
        /\ StepTo(p, [my EXCEPT
                        !.curIndex = r.nextIndex,
                        !.newSegments =
                            Append(@, createSegment(my.to,
                                          IF my.op = "add"
                                          THEN my.intensityAtToOriginal
                                          ELSE my.intensityBeforeFrom)),
                        !.pc = "collectAfter"])
        /\ UNCHANGED segments

\* add and set: this.collectSegmentsWhile(curIndex, () => true) and the push
\* of the segments found
CollectAfter(p) ==
    LET my == callers.state[p]
        r == collectSegmentsWhile(segments, my.curIndex, always)
    IN  /\ my.pc = "collectAfter"
        /\ StepTo(p, [my EXCEPT !.newSegments = @ \o r.segments,
                                !.curIndex = r.nextIndex,
                                !.pc = "write"])
        /\ UNCHANGED segments

\* add and set: this.segments = compressAndTrim(newSegments); the call
\* returns and its locals are gone
Write(p) ==
    LET my == callers.state[p]
    IN  /\ my.pc = "write"
        /\ segments' = compressAndTrim(my.newSegments)
        /\ StepTo(p, [Idle EXCEPT !.pc = "done", !.op = my.op,
                                  !.from = my.from, !.to = my.to,
                                  !.amount = my.amount])

NextSteps ==
    \E p \in Callers :
        \/ Begin(p)
        \/ ReadTo(p)
        \/ CollectBefore(p)
        \/ CheckFrom(p)
        \/ CollectMiddle(p)
        \/ SkipMiddle(p)
        \/ CheckTo(p)
        \/ CollectAfter(p)
        \/ Write(p)

SpecSteps == Init /\ [][NextSteps]_vars

\* ================================================================ claims
Rendered == toString(segments)
PrevRendered == toString(prev)

\* The step function read from a rendered list of finite numbers: the
\* intensity of the last breakpoint with point <= p, 0 if there is none.
ReadAt(r, p) ==
    LET hits == {j \in 1..Len(r) : r[j][1].v <= p}
    IN  IF hits = {} THEN 0
        ELSE r[CHOOSE j \in hits : \A i \in hits : i <= j][2].v

\* the points at which the claims compare step functions
Probes == 0..(MaxPoint + 1)

Returned(op) == call.op = op /\ call.err = OK
Threw == call.op \in {"add", "set"} /\ call.err # OK
HasPoint(segs, point) == \E i \in 1..Len(segs) : getPoint(segs[i]) = point

\* C1: after any sequence of valid add and set calls the rendered
\* breakpoint list has strictly increasing points.
C1_Sorted ==
    \A i \in 1..(Len(Rendered) - 1) : Rendered[i][1].v < Rendered[i + 1][1].v

\* a call whose from and to were both breakpoints already, leaving a list
\* of at least three breakpoints
C1_Witness ==
    /\ call.op \in {"add", "set"}
    /\ call.err = OK
    /\ HasPoint(prev, call.from)
    /\ HasPoint(prev, call.to)
    /\ Len(Rendered) >= 3

\* C2: after any sequence of valid add and set calls no two adjacent
\* rendered breakpoints carry the same intensity.
C2_NoPlateau ==
    \A i \in 1..(Len(Rendered) - 1) : Rendered[i][2] # Rendered[i + 1][2]

\* an add that kept the first and the last breakpoint and merged away
\* breakpoints between them
C2_Witness ==
    /\ Returned("add")
    /\ Len(segments) >= 2
    /\ Len(segments) < Len(prev)
    /\ getPoint(segments[1]) = getPoint(prev[1])
    /\ getPoint(segments[Len(segments)]) = getPoint(prev[Len(prev)])

\* C3: the rendered list is empty or begins with a non-zero intensity, it
\* never ends with two zero-intensity breakpoints, and it is empty when the
\* function is zero everywhere.
C3_Trimmed ==
    LET r == Rendered
        n == Len(Rendered)
    IN  /\ n > 0 => r[1][2].v # 0
        /\ n >= 2 => ~(r[n][2].v = 0 /\ r[n - 1][2].v = 0)
        /\ (\A i \in 1..n : r[i][2].v = 0) => n = 0

\* a call that cancelled a non-empty list down to the empty list
C3_Witness ==
    /\ call.op \in {"add", "set"}
    /\ call.err = OK
    /\ prev # <<>>
    /\ Rendered = <<>>

\* C4: add(from, to, amount) raises the intensity by amount at every point
\* of [from, to) and leaves it unchanged at every other point.
C4_AddSemantics ==
    Returned("add") =>
        \A p \in Probes :
            ReadAt(Rendered, p) =
                ReadAt(PrevRendered, p)
                + (IF call.from.v <= p /\ p < call.to.v THEN call.amount.v ELSE 0)

\* an add of a non-zero amount whose from and to were both breakpoints
C4_Witness ==
    /\ Returned("add")
    /\ call.amount.v # 0
    /\ HasPoint(prev, call.from)
    /\ HasPoint(prev, call.to)

\* C5: after set(from, to, amount) the intensity at every point of
\* [from, to) is amount.
C5_SetInside ==
    Returned("set") =>
        \A p \in Probes :
            (call.from.v <= p /\ p < call.to.v)
                => ReadAt(Rendered, p) = call.amount.v

\* a set over a range that held a breakpoint strictly inside it with
\* another intensity
C5_Witness ==
    /\ Returned("set")
    /\ \E i \in 1..Len(prev) :
        /\ call.from.v < getPoint(prev[i]).v
        /\ getPoint(prev[i]).v < call.to.v
        /\ getIntensity(prev[i]) # call.amount

\* C6: set(from, to, amount) leaves the intensity unchanged at every point
\* p < from and at every point p >= to.
C6_SetFrame ==
    Returned("set") =>
        \A p \in Probes :
            (p < call.from.v \/ p >= call.to.v)
                => ReadAt(Rendered, p) = ReadAt(PrevRendered, p)

\* C7: a call that fails validation leaves the rendered output as it was.
C7_NoPartialMutation == Threw => Rendered = PrevRendered

\* a call rejected for its type on a store that holds breakpoints
C7_Witness == Threw /\ call.err = InvalidType /\ prev # <<>>

\* Order of the numbers other than NaN: -Infinity below and +Infinity above
\* every finite number.
Rank(x) == IF x.k = "inf" THEN x.v * (MaxJsPoint + 1) ELSE x.v
IsOrdered(x) == x.k \in {"num", "inf"}

\* C8: add and set throw 'Invalid input range' whenever from >= to, from ==
\* to included, for arguments that are numbers.
C8_RangeError ==
    (/\ call.op \in {"add", "set"}
     /\ IsOrdered(call.from)
     /\ IsOrdered(call.to)
     /\ TypeofNumber(call.amount)
     /\ Rank(call.from) >= Rank(call.to))
        => call.err = InvalidRange

\* set over a zero-width range of finite numbers, rejected
C8_Witness ==
    /\ call.op = "set"
    /\ call.from.k = "num"
    /\ call.from = call.to
    /\ call.amount.k = "num"
    /\ call.err = InvalidRange

\* C9: add and set throw 'Invalid input amount' whenever the amount is
\* +Infinity or -Infinity and from < to are numbers, and the store is not
\* changed.
C9_AmountError ==
    (/\ call.op \in {"add", "set"}
     /\ IsOrdered(call.from)
     /\ IsOrdered(call.to)
     /\ Rank(call.from) < Rank(call.to)
     /\ call.amount \in {PosInf, NegInf})
        => (call.err = InvalidAmount /\ segments = prev)

\* add of -Infinity over a finite range on a store that holds breakpoints
C9_Witness ==
    /\ call.op = "add"
    /\ call.from.k = "num"
    /\ call.to.k = "num"
    /\ call.amount = NegInf
    /\ call.err = InvalidAmount
    /\ prev # <<>>

\* C10: a call in which from, to or amount is NaN fails with a validation
\* error and does not change the store.
C10_NaNRejected ==
    (/\ call.op \in {"add", "set"}
     /\ (IsNaN(call.from) \/ IsNaN(call.to) \/ IsNaN(call.amount)))
        => (call.err \in {InvalidType, InvalidAmount} /\ segments = prev)

\* C11: a call whose from or to is +Infinity or -Infinity fails with
\* 'Invalid input type' and does not change the store.
C11_InfiniteEndpoint ==
    (/\ call.op \in {"add", "set"}
     /\ (call.from \in {PosInf, NegInf} \/ call.to \in {PosInf, NegInf}))
        => (call.err = InvalidType /\ segments = prev)

\* C12: add throws 'Invalid input type' whenever one of from, to, amount is
\* not a number, whatever the other two arguments are.
C12_TypeError ==
    (/\ call.op = "add"
     /\ (~TypeofNumber(call.from) \/ ~TypeofNumber(call.to)
         \/ ~TypeofNumber(call.amount)))
        => call.err = InvalidType

\* add with a non-number amount over a valid finite range, rejected
C12_Witness ==
    /\ call.op = "add"
    /\ call.from.k = "num"
    /\ call.to.k = "num"
    /\ call.from.v < call.to.v
    /\ call.amount = Str
    /\ call.err = InvalidType

\* C13: add(from, to, a) followed by add(from, to, -a) leaves the rendered
\* output as it was before the two calls.
C13_AddInverse ==
    call.op = "add;add-" => (call.err = OK /\ Rendered = PrevRendered)

\* the two calls made with a non-zero amount on a store that holds
\* breakpoints, neither from nor to being one of them
C13_Witness ==
    /\ call.op = "add;add-"
    /\ call.amount.v # 0
    /\ prev # <<>>
    /\ ~HasPoint(prev, call.from)
    /\ ~HasPoint(prev, call.to)

\* C14: add(from, to, 0) leaves the rendered output unchanged.
C14_AddZero ==
    (Returned("add") /\ call.amount = Num(0)) => Rendered = PrevRendered

\* add of 0 from before the first breakpoint to a point strictly between
\* the first and the last breakpoint that is not a breakpoint
C14_Witness ==
    /\ Returned("add")
    /\ call.amount = Num(0)
    /\ Len(prev) >= 2
    /\ call.from.v < getPoint(prev[1]).v
    /\ getPoint(prev[1]).v < call.to.v
    /\ call.to.v < getPoint(prev[Len(prev)]).v
    /\ ~HasPoint(prev, call.to)

\* C18: on a new store, add(a, b, v) followed by add(b, c, v) with
\* a < b < c and v non-zero renders [[a, v], [c, 0]].
C18_AdjacentMerge ==
    (/\ call.op = "add;addNext"
     /\ call.err = OK
     /\ call.amount.v # 0)
        => Rendered = <<<<call.from, call.amount>>, <<call.to, Num(0)>>>>

\* the two calls made with a negative v, both returning
C18_Witness ==
    /\ call.op = "add;addNext"
    /\ call.err = OK
    /\ call.amount.v < 0
    /\ prev = <<>>
    /\ Len(Rendered) = 2

\* C15: the rendered output after set(from, to, a) followed by
\* set(from, to, b) equals the output of the single call set(from, to, b)
\* made on the same store.
C15_SetTwice ==
    call.op = "set;set" =>
        Rendered = toString(set(prev, call.from, call.to, call.amount).segments)

\* C16: compressAndTrim is idempotent: for every list x of segments with
\* strictly increasing points, compressAndTrim(compressAndTrim(x)) equals
\* compressAndTrim(x).
C16_Idempotent ==
    ncalls = 2 => segments = compressAndTrim(prev)

\* x is neither compressed nor trimmed, and something is left of it
C16_Witness ==
    /\ ncalls = 2
    /\ compressedUpTo(prev, Len(prev)) # prev
    /\ Len(compressAndTrim(prev)) < Len(compressedUpTo(prev, Len(prev)))
    /\ Len(segments) >= 2

\* a list of [point, intensity] pairs of integers, as toString renders it
DocList(pairs) == [i \in 1..Len(pairs) |-> <<Num(pairs[i][1]), Num(pairs[i][2])>>]

DocCall(from, to, amount) ==
    [op |-> "add", from |-> Num(from), to |-> Num(to), amount |-> Num(amount),
     err |-> OK]

\* C17: the documented scenario: a new store renders []; add(10,30,1) on it
\* gives [[10,1],[30,0]]; add(20,40,1) on that gives
\* [[10,1],[20,2],[30,1],[40,0]]; add(10,40,-2) on that gives
\* [[10,-1],[20,0],[30,-1],[40,0]].
C17_Documented ==
    /\ ncalls = 0 => Rendered = <<>>
    /\ (ncalls = 1 /\ PrevRendered = <<>> /\ call = DocCall(10, 30, 1))
           => Rendered = DocList(<<<<10, 1>>, <<30, 0>>>>)
    /\ (ncalls = 2 /\ PrevRendered = DocList(<<<<10, 1>>, <<30, 0>>>>)
                   /\ call = DocCall(20, 40, 1))
           => Rendered = DocList(<<<<10, 1>>, <<20, 2>>, <<30, 1>>, <<40, 0>>>>)
    /\ (ncalls = 3
            /\ PrevRendered = DocList(<<<<10, 1>>, <<20, 2>>, <<30, 1>>, <<40, 0>>>>)
            /\ call = DocCall(10, 40, -2))
           => Rendered = DocList(<<<<10, -1>>, <<20, 0>>, <<30, -1>>, <<40, 0>>>>)

\* the third call of the scenario has returned
C17_Witness ==
    /\ ncalls = 3
    /\ PrevRendered = DocList(<<<<10, 1>>, <<20, 2>>, <<30, 1>>, <<40, 0>>>>)
    /\ call = DocCall(10, 40, -2)
    /\ Len(Rendered) = 4

\* the array the map-based toString renders in the current state
MapRendered == toString(mapToSortedArray(segmentMap, sortedKeys))

Ascending(r) == \A i \in 1..(Len(r) - 1) : r[i][1].v < r[i + 1][1].v

\* the object of the map-based class whose entries are the segments of an
\* array in key order
ObjectOf(array) ==
    [segmentMap |-> [key \in {getPoint(array[i]) : i \in 1..Len(array)} |->
                        getIntensity(array[CHOOSE i \in 1..Len(array) :
                                               getPoint(array[i]) = key])],
     sortedKeys |-> [i \in 1..Len(array) |-> getPoint(array[i])],
     needsRebuild |-> FALSE]

\* C19: toString is a read-only projection, in both classes: it leaves the
\* store as it was, it returns one pair per breakpoint of the store (no
\* compression of its own) in ascending point order, an empty store renders
\* [], a second toString returns the same string, and an add or set after
\* it gives what the same call gives without the toString.
C19_ReadOnly ==
    /\ call.op \in {"toString", "toString;toString"} =>
          /\ segments = prev
          /\ Len(out[1]) = Len(prev)
          /\ \A i \in 1..Len(prev) :
                out[1][i] = <<getPoint(prev[i]), getIntensity(prev[i])>>
          /\ Ascending(out[1])
          /\ (prev = <<>> => out[1] = <<>>)
    /\ call.op \in {"map.toString", "map.toString;toString"} =>
          /\ This = ObjectOf(prev)
          /\ Len(out[1]) = Cardinality(DOMAIN segmentMap)
          /\ \A key \in DOMAIN segmentMap :
                \E i \in 1..Len(out[1]) : out[1][i] = <<key, segmentMap[key]>>
          /\ Ascending(out[1])
          /\ (DOMAIN segmentMap = {} => out[1] = <<>>)
    /\ call.op \in {"toString;toString", "map.toString;toString"} =>
          out[2] = out[1]
    /\ call.op = "toString;add" =>
          segments = add(prev, call.from, call.to, call.amount).segments
    /\ call.op = "toString;set" =>
          segments = set(prev, call.from, call.to, call.amount).segments
    /\ call.op = "map.toString;add" =>
          This = mapAdd(ObjectOf(prev), call.from, call.to, call.amount).this

\* a second toString has returned on a map-based store that holds two
\* neighbouring keys of equal intensity and a leading zero
C19_Witness ==
    /\ call.op = "map.toString;toString"
    /\ Len(out[2]) >= 3
    /\ out[2][1][2] = Num(0)
    /\ \E i \in 1..(Len(out[2]) - 1) : out[2][i][2] = out[2][i + 1][2]

\* C21: map-based set(from, to, amount) overrides only the range: after the
\* call every point p with from <= p < to has intensity amount and every
\* other point, to included, keeps its pre-call intensity (as in the README:
\* add(10,30,5); set(15,25,10) gives [10,5],[15,10],[25,5],[30,0]).
C21_MapSetSemantics ==
    (call.op = "map.set" /\ call.err = OK) =>
        \A p \in Probes :
            ReadAt(MapRendered, p) =
                IF call.from.v <= p /\ p < call.to.v THEN call.amount.v
                ELSE ReadAt(PrevRendered, p)

\* C22: the map-based class renders merged and trimmed output: after any
\* sequence of valid add and set calls the rendered list has no two
\* neighbouring breakpoints of equal intensity and no leading breakpoint of
\* intensity 0.
C22_MapMergedTrimmed ==
    /\ \A i \in 1..(Len(MapRendered) - 1) :
          MapRendered[i][2] # MapRendered[i + 1][2]
    /\ (Len(MapRendered) > 0 => MapRendered[1][2] # Num(0))

\* C30: after every add or set call on the map-based class, returned or
\* thrown, needsRebuild is false and sortedKeys is the strictly increasing
\* list of all keys of segmentMap, so that toString renders every key once.
C30_IndexConsistent ==
    /\ ~needsRebuild
    /\ \A i \in 1..(Len(sortedKeys) - 1) : Lt(sortedKeys[i], sortedKeys[i + 1])
    /\ {sortedKeys[i] : i \in 1..Len(sortedKeys)} = DOMAIN segmentMap
    /\ Len(MapRendered) = Cardinality(DOMAIN segmentMap)

\* a call has returned that found neither from nor to among at least two
\* keys, one of them greater than to
C30_Witness ==
    /\ call.op \in {"map.add", "map.set"}
    /\ call.err = OK
    /\ Len(prev) >= 2
    /\ ~HasPoint(prev, call.from)
    /\ ~HasPoint(prev, call.to)
    /\ \E i \in 1..Len(prev) : Gt(getPoint(prev[i]), call.to)

\* C24: list-based set(from, to, amount) drops every breakpoint strictly
\* inside the range: the rendered list after the call has no breakpoint
\* whose point p satisfies from < p < to.
C24_SetDropsInside ==
    Returned("set") =>
        \A i \in 1..Len(Rendered) :
            ~(call.from.v < Rendered[i][1].v /\ Rendered[i][1].v < call.to.v)

\* the range held two breakpoints strictly inside it, of intensities other
\* than the amount, and the list is not empty after the call
C24_Witness ==
    /\ Returned("set")
    /\ Len(Rendered) >= 2
    /\ \E i \in 1..(Len(prev) - 1) :
        /\ call.from.v < getPoint(prev[i]).v
        /\ getPoint(prev[i + 1]).v < call.to.v
        /\ getIntensity(prev[i]) # call.amount
        /\ getIntensity(prev[i + 1]) # call.amount

\* C25: after any sequence of valid add and set calls on the list-based
\* store, a rendered list that is not empty ends with a breakpoint of
\* intensity 0.
C25_FiniteSupport ==
    Len(Rendered) > 0 => Rendered[Len(Rendered)][2] = Num(0)

\* C26: a list-based set(from, to, v) on a store whose intensity is already
\* v at every point of [from, to) leaves the rendered output unchanged.
C26_RedundantSet ==
    (/\ Returned("set")
     /\ \A p \in Probes :
            (call.from.v <= p /\ p < call.to.v)
                => ReadAt(PrevRendered, p) = call.amount.v)
        => Rendered = PrevRendered

\* C28: compressAndTrim preserves the represented function: the step
\* function read from its output equals the one read from its input at
\* every point.
C28_CompressPreserves ==
    ncalls >= 1 =>
        \A p \in Probes :
            ReadAt(toString(compressAndTrim(prev)), p) = ReadAt(toString(prev), p)

\* the input had a leading zero, two equal neighbours and two trailing
\* zeros, and the output is not empty
C28_Witness ==
    /\ ncalls = 1
    /\ segments = compressAndTrim(prev)
    /\ Len(segments) >= 2
    /\ Len(prev) >= Len(segments) + 2
    /\ getIntensity(prev[1]) = Num(0)

\* C29: validateInput reports the first failure in the order type, range,
\* amount: a non-number argument gives 'Invalid input type' whatever the
\* others are, and numbers with from >= to and an infinite amount give
\* 'Invalid input range'.
C29_Precedence ==
    call.op \in {"add", "set"} =>
        /\ (\E x \in {call.from, call.to, call.amount} : ~TypeofNumber(x))
              => call.err = InvalidType
        /\ (/\ IsOrdered(call.from)
            /\ IsOrdered(call.to)
            /\ Rank(call.from) >= Rank(call.to)
            /\ call.amount \in {PosInf, NegInf})
              => call.err = InvalidRange

\* a call with finite from > to and an infinite amount, rejected for its
\* range
C29_Witness ==
    /\ call.op \in {"add", "set"}
    /\ call.amount \in {PosInf, NegInf}
    /\ call.from.k = "num"
    /\ call.to.k = "num"
    /\ call.from.v > call.to.v
    /\ call.err = InvalidRange

\* C27: add commutes: from every reachable list-based store, two valid add
\* calls with integer arguments give the same rendered output in either
\* order.
C27_AddCommutes ==
    call.op = "add,add" => out[1] = Rendered

\* from the empty store, two overlapping ranges with opposite amounts
C27_Witness ==
    /\ call.op = "add,add"
    /\ prev = <<>>
    /\ Rendered = DocList(<<<<1, 1>>, <<2, 0>>, <<3, -1>>, <<4, 0>>>>)

\* I1 to I4 of a rendered list: strictly increasing points; no two
\* neighbours of equal intensity; no leading zero and no trailing zero behind
\* a zero; intensity 0 from the last breakpoint onward
I1(r) == \A i \in 1..(Len(r) - 1) : Lt(r[i][1], r[i + 1][1])
I2(r) == \A i \in 1..(Len(r) - 1) : r[i][2] # r[i + 1][2]
I3(r) ==
    Len(r) > 0 =>
        /\ r[1][2] # Num(0)
        /\ (Len(r) >= 2 /\ r[Len(r)][2] = Num(0)) => r[Len(r) - 1][2] # Num(0)
I4(r) == Len(r) > 0 => r[Len(r)][2] = Num(0)

\* the calls made so far were add calls
OnlyAdds == \A p \in Callers : callers.state[p].op \in {"none", "add"}

\* C23: with each call run from entry to return before the next one enters
\* (no step taken while another call is in progress), add calls alone never
\* give a rendered list that violates I1 to I4, and a call run alone leaves
\* what the method leaves. That interleaved steps reach a list violating them
\* is the state C23_Witness describes.
C23_AtomicAddsKeepInvariants ==
    /\ (~callers.interleaved /\ OnlyAdds) =>
          (I1(Rendered) /\ I2(Rendered) /\ I3(Rendered) /\ I4(Rendered))
    /\ \A p \in Callers :
          LET my == callers.state[p]
          IN  (/\ my.pc = "done"
               /\ \A q \in Callers \ {p} : callers.state[q].pc = "idle")
                  => segments = IF my.op = "add"
                                THEN add(<<>>, my.from, my.to, my.amount).segments
                                ELSE set(<<>>, my.from, my.to, my.amount).segments

\* two add calls were interleaved, both have returned, and the points of
\* the rendered list are out of order
C23_Witness ==
    /\ callers.interleaved
    /\ OnlyAdds
    /\ \A p \in Callers : callers.state[p].pc = "done" /\ callers.state[p].err = OK
    /\ ~I1(Rendered)

====
